---------------------------- MODULE Spec2Model ----------------------------
(***************************************************************************)
(* MultimodalSolver.sample (flow_matching/solver/multimodal_solver.py) as  *)
(* a state machine.                                                        *)
(*                                                                         *)
(* Representation.                                                         *)
(*  - Times are integers (ticks): a bounded sample of the real line, so    *)
(*    that t + h, ceil(d / s) and |a - b| are computed exactly.  Floating  *)
(*    point rounding is not modelled.                                      *)
(*  - A tensor is a sequence with one integer per batch element.  Tensors  *)
(*    are objects: `heap` maps an object id to its value, and the lists    *)
(*    the code holds (x_init, states, intermediates, the result) hold ids, *)
(*    so that x.clone() and plain aliasing are different things.           *)
(*  - An optional value is <<>> (None) or <<v>>.                           *)
(*  - Classes of a discrete modality are 0 .. VocabSize-1; a distribution  *)
(*    over them is a sequence of numerators, class c at position c+1.      *)
(***************************************************************************)
EXTENDS Integers, Sequences, FiniteSets, TLC

VARIABLES
    model,                  \* self.model: what the callable may return
    modality_configs,       \* self.modality_configs
    source_distribution_p,  \* self.source_distribution_p
    TQDM_AVAILABLE,         \* module-level flag set by the tqdm import
    call,                   \* the arguments of the call to sample
    heap,                   \* tensor objects: id -> value
    pc,                     \* "idle", "stepping", "done", "failed"
    err,                    \* the exception that ended the call, or "none"
    t_discretization,       \* local of sample
    n_steps,                \* local of sample
    time_grid,              \* local of sample (reassigned at line 182)
    order,                  \* local of sample (line 180), <<>> while unset
    states,                 \* local of sample: ids, one per modality
    intermediates,          \* local of sample: per modality, a list of ids
    steps_counter,          \* local of sample
    i,                      \* loop variable of line 205
    ctx,                    \* the progress display, <<>> for nullcontext()
    loc,                    \* per modality, the locals of the last loop body
    result,                 \* the value returned, <<>> before the return
    model_calls,            \* history: number of invocations of self.model
    hist                    \* history: the joint state at every point of
                            \* t_discretization reached so far

vars == <<model, modality_configs, source_distribution_p, TQDM_AVAILABLE,
          call, heap, pc, err, t_discretization, n_steps, time_grid, order,
          states, intermediates, steps_counter, i, ctx, loc, result,
          model_calls, hist>>

(***************************************************************************)
(* Bounds of the model.                                                    *)
(***************************************************************************)
MaxT == 3          \* times of a caller grid are 0 .. MaxT
MaxLen == 3        \* a caller grid has 2 .. MaxLen entries
GridMaxT == 4      \* the same two bounds for the specification that
GridMaxLen == 5    \*   explores the trajectory re-indexing (SpecGrid)
VocabSize == 2     \* p_1t.shape[-1]
MaxBatch == 2      \* x_init[0].shape[0] is 1 .. MaxBatch
KDen == 3          \* alpha_t is a multiple of 1/KDen strictly inside (0, 1)

None == <<>>
Some(v) == <<v>>
IsNone(o) == o = <<>>
Val(o) == o[1]

Classes == 0 .. VocabSize - 1
PDen == VocabSize   \* the numerators of a source distribution sum to PDen

Abs(a) == IF a < 0 THEN -a ELSE a
Range(s) == {s[j] : j \in 1 .. Len(s)}

\* math.ceil(d / s) for an integer d and a positive integer s
Ceil(d, s) == IF d % s = 0 THEN d \div s ELSE (d \div s) + 1

(***************************************************************************)
(* _validate_configs: what a constructed solver's configuration satisfies. *)
(* The 'path' of a discrete modality is the scheduler modelled below.      *)
(***************************************************************************)
ValidateConfigs(configs) ==
    \A j \in 1 .. Len(configs) : configs[j].type \in {"continuous", "discrete"}

\* div_free is a float, or a callable of the time: t |-> c0 + c1 * t
DivFreeIsZero(df) == ~df.callable /\ df.c0 = 0      \* div_free == 0.0
DivFreeAt(df, t) == IF df.callable THEN df.c0 + df.c1 * t ELSE df.c0

\* x_init[0].shape[0]
BatchSize == Len(heap[call.x_init[1]])


(***************************************************************************)
(* Time Discretizer (lines 160-184).                                       *)
(***************************************************************************)
\* a step size equal to the whole interval accepted
StepSizeAccepted_OrEqual(tg, s) == tg[Len(tg)] - tg[1] >= s

\* the assertion of lines 168-170
StepSizeAccepted(tg, s) == tg[Len(tg)] - tg[1] > s

\* lines 163 and 172
NSteps(tg, step) ==
    IF IsNone(step) THEN Len(tg) - 1
    ELSE Ceil(tg[Len(tg)] - tg[1], Val(step))

\* the end point left on the uniform grid instead of set to t_final
TDiscretization_NoEndpoint(tg, step) ==
    IF IsNone(step) THEN tg
    ELSE [j \in 1 .. NSteps(tg, step) + 1 |-> tg[1] + Val(step) * (j - 1)]

\* lines 162 and 173-176
TDiscretization(tg, step) ==
    IF IsNone(step) THEN tg
    ELSE LET n == NSteps(tg, step)
         IN  [j \in 1 .. n + 1 |->
                 IF j <= n THEN tg[1] + Val(step) * (j - 1) ELSE tg[Len(tg)]]

\* torch.argsort (line 180): 0-based indices of tg in ascending order of
\* value.  Equal values are kept in index order; whenever two entries of the
\* grid are equal the call ends in IndexError before `order` decides a value
\* (see SampleReturn), so the order among ties is never observed.
SortRank(tg, j) ==
    Cardinality({m \in 1 .. Len(tg) :
                    tg[m] < tg[j] \/ (tg[m] = tg[j] /\ m < j)})
ArgSort(tg) ==
    [k \in 1 .. Len(tg) |->
        (CHOOSE j \in 1 .. Len(tg) : SortRank(tg, j) = k - 1) - 1]

\* flow_matching.solver.utils.get_nearest_times: for every requested time
\* the nearest point of the discretization (the first one among equally
\* near points, as argmin returns it).
NearestIndex(tau, disc) ==
    CHOOSE j \in 1 .. Len(disc) :
        /\ \A m \in 1 .. Len(disc) : Abs(disc[j] - tau) <= Abs(disc[m] - tau)
        /\ \A m \in 1 .. j - 1 : Abs(disc[m] - tau) > Abs(disc[j] - tau)
GetNearestTimes(tg, disc) ==
    [k \in 1 .. Len(tg) |-> disc[NearestIndex(tg[k], disc)]]

(***************************************************************************)
(* The checks sample makes before its loop, in the code's order; the       *)
(* result is the exception raised, or "none".                              *)
(***************************************************************************)
EntryError(c) ==
    IF Len(c.x_init) # Len(modality_configs) THEN "ValueError"      \* l.142
    ELSE IF c.method # "euler" THEN "NotImplementedError"            \* l.146
    ELSE IF ~DivFreeIsZero(c.div_free) /\ IsNone(source_distribution_p)
         THEN "AssertionError"                                       \* l.150
    ELSE IF ~IsNone(c.step_size)
            /\ ~StepSizeAccepted(c.time_grid, Val(c.step_size))
         THEN "AssertionError"                                       \* l.168
    ELSE IF c.verbose /\ ~TQDM_AVAILABLE THEN "ImportError"          \* l.196
    ELSE IF c.verbose /\ IsNone(c.step_size)
         THEN "UnboundLocalError"       \* l.200 reads t_final, bound at l.167
    ELSE "none"

\* x if enable_grad else x.clone(), for every x of x_init (lines 186, 188):
\* the ids, given the heap the clones are appended to
CloneIds(h) ==
    [idx \in 1 .. Len(call.x_init) |->
        IF call.enable_grad THEN call.x_init[idx] ELSE Len(h) + idx]
CloneHeap(h) ==
    IF call.enable_grad THEN h
    ELSE h \o [idx \in 1 .. Len(call.x_init) |-> heap[call.x_init[idx]]]

\* lines 142-202: validation, discretization, the initial state
SampleEntry ==
    /\ pc = "idle"
    /\ LET e == EntryError(call)
           disc == TDiscretization(call.time_grid, call.step_size)
           fixed == ~IsNone(call.step_size)
           heap1 == CloneHeap(heap)
       IN  IF e # "none"
           THEN /\ pc' = "failed"
                /\ err' = e
                /\ UNCHANGED <<heap, t_discretization, n_steps, time_grid,
                               order, states, intermediates, ctx, hist>>
           ELSE /\ pc' = "stepping"
                /\ err' = "none"
                /\ t_discretization' = disc
                /\ n_steps' = NSteps(call.time_grid, call.step_size)
                /\ order' = IF fixed /\ call.return_intermediates
                            THEN ArgSort(call.time_grid) ELSE <<>>
                /\ time_grid' = IF fixed /\ call.return_intermediates
                                THEN GetNearestTimes(call.time_grid, disc)
                                ELSE call.time_grid
                /\ states' = CloneIds(heap)
                /\ intermediates' =
                       IF call.return_intermediates
                       THEN [idx \in 1 .. Len(call.x_init) |->
                                <<CloneIds(heap1)[idx]>>]
                       ELSE <<>>
                /\ heap' = IF call.return_intermediates
                           THEN CloneHeap(heap1) ELSE heap1
                /\ ctx' = IF call.verbose
                          THEN Some([total |-> call.time_grid[Len(call.time_grid)],
                                     n |-> 0, desc |-> 0])
                          ELSE None
                /\ hist' = <<[idx \in 1 .. Len(call.x_init) |->
                                 heap[call.x_init[idx]]]>>
    /\ steps_counter' = 0
    /\ i' = 0
    /\ UNCHANGED <<model, modality_configs, source_distribution_p,
                   TQDM_AVAILABLE, call, loc, result, model_calls>>

(***************************************************************************)
(* Continuous Stepper (line 224) and Discrete Stepper (lines 226-289).     *)
(***************************************************************************)
\* the step size left out of the update
EulerStep_NoStepSize(x, h, v) == [b \in 1 .. Len(x) |-> x[b] + v[b]]

\* states[idx] + h * model_output
EulerStep(x, h, v) == [b \in 1 .. Len(x) |-> x[b] + h * v[b]]

\* F.one_hot(x, num_classes)[..., c]
OneHot(x, c) == IF x = c THEN 1 ELSE 0

\* path.scheduler(t) of flow_matching.path: the schedule's coefficient
\* alpha_t = a / KDen with 0 < alpha_t < 1, and its derivative d_alpha_t > 0.
\* The schedule is not given, so any such pair may come back.
DAlphas == {1, 2}
SchedulerOutputs ==
    {[alpha_t |-> a, d_alpha_t |-> d] : a \in 1 .. KDen - 1, d \in DAlphas}

(***************************************************************************)
(* Rates are rationals; they are held multiplied by the positive number    *)
(*     k_t * (1 - k_t) * KDen^2 * PDen      (k_t = a / KDen),              *)
(* which makes every term below an integer and keeps signs, zeros and the  *)
(* comparisons between the rates of one step.  With k = a, d = d_k_t:      *)
(*     d_k_t / (1 - k_t) * delta_1                 ->  d*a*KDen*PDen*delta *)
(*     c * d_k_t / (k_t*(1-k_t)) * ((1-k_t)*p_0 + k_t*delta_1)             *)
(*                          ->  c*d*KDen*((KDen-a)*p + a*PDen*delta)       *)
(***************************************************************************)
\* line 257
BaseRate(so, x1, c) ==
    so.d_alpha_t * so.alpha_t * KDen * PDen * OneHot(x1, c)

\* the summand of lines 268-270
DivFreeTerm(so, dft, p0, x1, c) ==
    dft * so.d_alpha_t * KDen
        * ((KDen - so.alpha_t) * p0[c + 1] + so.alpha_t * PDen * OneHot(x1, c))

\* the term added for every nonzero coefficient
AddsDivFree_Nonzero(dft) == dft # 0

\* the test of line 264
AddsDivFree(dft) == dft > 0

\* u after lines 257-270, for every coordinate b and class c
RateWithDivFree(so, dft, x_1) ==
    [b \in 1 .. Len(x_1) |-> [c \in Classes |->
        IF AddsDivFree(dft)
        THEN BaseRate(so, x_1[b], c)
                 + DivFreeTerm(so, dft, Val(source_distribution_p), x_1[b], c)
        ELSE BaseRate(so, x_1[b], c)]]

\* the self-transition rate left in place
ZeroSelfRate_Skipped(u, x_t) == u

\* lines 273-278: torch.where(one_hot(states[idx]), 0, u)
ZeroSelfRate(u, x_t) ==
    [b \in 1 .. Len(x_t) |-> [c \in Classes |->
        IF OneHot(x_t[b], c) = 1 THEN 0 ELSE u[b][c]]]

\* line 281
Intensity(u) ==
    [b \in 1 .. Len(u) |->
        LET RECURSIVE Sum(_)
            Sum(c) == IF c < 0 THEN 0 ELSE u[b][c] + Sum(c - 1)
        IN  Sum(VocabSize - 1)]

\* lines 282-284: rand < 1 - exp(-h * intensity), rand uniform in [0, 1).
\* The bound is positive exactly when h * intensity is, and is below 1, so
\* a coordinate may jump only then, and may always stay.
JumpMasks(h, intensity) ==
    {m \in [1 .. Len(intensity) -> BOOLEAN] :
        \A b \in 1 .. Len(intensity) : m[b] => h * intensity[b] > 0}

\* lines 286-289: the masked coordinates take a draw of categorical(u[b]),
\* a class of positive rate; the others keep their value
JumpTargets(u, x_t, mask) ==
    {x \in [1 .. Len(x_t) -> Classes] :
        \A b \in 1 .. Len(x_t) :
            IF mask[b] THEN u[b][x[b]] > 0 ELSE x[b] = x_t[b]}

\* the final step never recognised
IsFinalStep_Never(k, n) == k = n

\* line 234
IsFinalStep(k, n) == k = n - 1

(***************************************************************************)
(* What one loop body may draw for modality idx: the model's output and    *)
(* the random draws.  softmax is positive everywhere, so categorical(p_1t) *)
(* may return any class at any coordinate.                                 *)
(***************************************************************************)
Draws(idx, h) ==
    LET x_t == heap[states[idx]]
        B == Len(x_t)
        t == t_discretization[i + 1]
        dft == DivFreeAt(call.div_free, t)
    IN  IF modality_configs[idx].type = "continuous"
        THEN {[type |-> "continuous", v |-> v] : v \in [1 .. B -> model.vel]}
        ELSE IF IsFinalStep(i, n_steps)
        THEN {[type |-> "discrete", final |-> TRUE, x_t |-> x_t, x_1 |-> x1]
                 : x1 \in [1 .. B -> Classes]}
        ELSE UNION {
               LET u_div == RateWithDivFree(so, dft, x1)
                   u == ZeroSelfRate(u_div, x_t)
               IN  UNION {
                     {[type |-> "discrete", final |-> FALSE, x_t |-> x_t,
                       x_1 |-> x1, k_t |-> so.alpha_t, d_k_t |-> so.d_alpha_t,
                       div_free_t |-> dft, u_div |-> u_div, u |-> u,
                       mask_jump |-> m, x_new |-> xn]
                        : xn \in JumpTargets(u, x_t, m)}
                     : m \in JumpMasks(h, Intensity(u))}
               : so \in SchedulerOutputs, x1 \in [1 .. B -> Classes]}

RECURSIVE DrawSeqs(_, _)
DrawSeqs(m, h) ==
    IF m = 0 THEN {<<>>}
    ELSE {Append(s, d) : s \in DrawSeqs(m - 1, h), d \in Draws(m, h)}

(***************************************************************************)
(* Orchestrator: one iteration of the loop of line 205.                    *)
(***************************************************************************)
\* lines 219-289 for modality idx, on st = [heap, states]: a continuous
\* step and the final discrete step bind states[idx] to a new tensor, a
\* non-final discrete step writes the masked coordinates of states[idx] in
\* place
ApplyDraw(st, idx, d, h) ==
    IF d.type = "continuous"
    THEN [heap |-> Append(st.heap, EulerStep(st.heap[st.states[idx]], h, d.v)),
          states |-> [st.states EXCEPT ![idx] = Len(st.heap) + 1]]
    ELSE IF d.final
    THEN [heap |-> Append(st.heap, d.x_1),
          states |-> [st.states EXCEPT ![idx] = Len(st.heap) + 1]]
    ELSE [heap |-> [st.heap EXCEPT ![st.states[idx]] = d.x_new],
          states |-> st.states]

RECURSIVE StepModalities(_, _, _, _)
StepModalities(st, ds, m, h) ==
    IF m = 0 THEN st
    ELSE ApplyDraw(StepModalities(st, ds, m - 1, h), m, ds[m], h)

\* `t[idx] in time_grid` (line 298) is (t[idx] == time_grid).any(): t[idx]
\* has batch_size entries and time_grid len(time_grid), and the comparison
\* raises RuntimeError unless the two shapes broadcast
MembershipRaises(B, tg) == B # 1 /\ Len(tg) # 1 /\ B # Len(tg)

\* line 299 for modality idx, on rec = [heap, intermediates]
RecordSnapshot(rec, idx, sid) ==
    IF call.enable_grad
    THEN [heap |-> rec.heap,
          intermediates |->
              [rec.intermediates EXCEPT ![idx] = Append(@, sid)]]
    ELSE [heap |-> Append(rec.heap, rec.heap[sid]),
          intermediates |->
              [rec.intermediates EXCEPT ![idx] = Append(@, Len(rec.heap) + 1)]]

\* lines 296-299
RECURSIVE RecordAll(_, _, _, _)
RecordAll(rec, sts, m, tnext) ==
    IF m = 0 THEN rec
    ELSE LET r == RecordAll(rec, sts, m - 1, tnext)
         IN  IF tnext \in Range(time_grid)
             THEN RecordSnapshot(r, m, sts[m]) ELSE r

SampleStep ==
    /\ pc = "stepping"
    /\ i < n_steps
    /\ model_calls' = model_calls + 1                            \* line 210
    /\ LET t == t_discretization[i + 1]
           h == t_discretization[i + 2] - t_discretization[i + 1]
           M == Len(modality_configs)
       IN  IF ~model.wellformed                             \* lines 212-217
           THEN /\ pc' = "failed"
                /\ err' = "TypeError"
                /\ UNCHANGED <<heap, states, intermediates, steps_counter,
                               i, ctx, loc, hist>>
           ELSE \E ds \in DrawSeqs(M, h) :
                LET st == StepModalities([heap |-> heap, states |-> states],
                                         ds, M, h)
                    raises == call.return_intermediates
                              /\ MembershipRaises(BatchSize, time_grid)
                    rec == IF call.return_intermediates /\ ~raises
                           THEN RecordAll([heap |-> st.heap,
                                           intermediates |-> intermediates],
                                          st.states, M, t + h)
                           ELSE [heap |-> st.heap,
                                 intermediates |-> intermediates]
                IN  /\ loc' = ds
                    /\ states' = st.states
                    /\ heap' = rec.heap
                    /\ intermediates' = rec.intermediates
                    /\ steps_counter' = steps_counter + 1        \* line 294
                    /\ hist' = Append(hist,
                                 [idx \in 1 .. M |-> st.heap[st.states[idx]]])
                    /\ IF raises
                       THEN /\ pc' = "failed"
                            /\ err' = "RuntimeError"
                            /\ UNCHANGED <<i, ctx>>
                       ELSE /\ pc' = "stepping"
                            /\ err' = "none"
                            /\ i' = i + 1
                            /\ ctx' = IF call.verbose    \* lines 301-304
                                      THEN Some([Val(ctx) EXCEPT
                                                 !.n = (t + h) * n_steps,
                                                 !.desc = steps_counter + 1])
                                      ELSE ctx
    /\ UNCHANGED <<model, modality_configs, source_distribution_p,
                   TQDM_AVAILABLE, call, t_discretization, n_steps,
                   time_grid, order, result>>

\* lines 306-315.  A trajectory is returned as the list of its tensors; an
\* index of `order` past the end of a trajectory raises IndexError.
Reordered(traj, ord) == [k \in 1 .. Len(ord) |-> traj[ord[k] + 1]]

SampleReturn ==
    /\ pc = "stepping"
    /\ i = n_steps
    /\ LET fixed == ~IsNone(call.step_size)
           short == \E idx \in 1 .. Len(intermediates) :
                        \E k \in 1 .. Len(order) :
                            order[k] + 1 > Len(intermediates[idx])
       IN  IF call.return_intermediates /\ fixed /\ short
           THEN /\ pc' = "failed"
                /\ err' = "IndexError"
                /\ result' = result
           ELSE /\ pc' = "done"
                /\ err' = "none"
                /\ result' =
                     IF ~call.return_intermediates THEN states
                     ELSE IF ~fixed THEN intermediates
                     ELSE [idx \in 1 .. Len(intermediates) |->
                              Reordered(intermediates[idx], order)]
    /\ UNCHANGED <<model, modality_configs, source_distribution_p,
                   TQDM_AVAILABLE, call, heap, t_discretization, n_steps,
                   time_grid, order, states, intermediates, steps_counter,
                   i, ctx, loc, model_calls, hist>>

Next == SampleEntry \/ SampleStep \/ SampleReturn

(***************************************************************************)
(* Initial states: a constructed solver and the arguments of one call.     *)
(* S gives the set every input is drawn from.                              *)
(***************************************************************************)
Grids(L, T) == UNION {[1 .. n -> 0 .. T] : n \in 2 .. L}
\* step_size: None, or a size, which is a positive number of ticks
StepSizes(T) == {None} \cup {Some(s) : s \in 1 .. T}

Float(c) == [callable |-> FALSE, c0 |-> c, c1 |-> 0]
Callable(c0, c1) == [callable |-> TRUE, c0 |-> c0, c1 |-> c1]
DivFrees == {Float(0), Float(1), Float(-1), Callable(-1, 1), Callable(1, -1)}

Continuous == [type |-> "continuous"]
Discrete == [type |-> "discrete"]

Uniform == [c \in 1 .. VocabSize |-> 1]
PointMass == [c \in 1 .. VocabSize |-> IF c = VocabSize THEN PDen ELSE 0]

Model(vel) == [vel |-> vel, wellformed |-> TRUE]
BadModel == [vel |-> {0}, wellformed |-> FALSE]

InitFrom(S) ==
    /\ model \in S.models
    /\ modality_configs \in {c \in S.configs : ValidateConfigs(c)}
    /\ source_distribution_p \in S.sources
    /\ TQDM_AVAILABLE \in S.tqdm
    /\ \E n \in S.n_init, B \in S.batches :
          /\ heap \in [1 .. n -> [1 .. B -> S.x0]]
          /\ call \in [x_init : {[idx \in 1 .. n |-> idx]},
                       step_size : S.steps,
                       div_free : S.div_frees,
                       method : S.methods,
                       time_grid : S.grids,
                       return_intermediates : S.return_intermediates,
                       enable_grad : S.enable_grad,
                       verbose : S.verbose]
    /\ pc = "idle"
    /\ err = "none"
    /\ t_discretization = <<>>
    /\ n_steps = 0
    /\ time_grid = <<>>
    /\ order = <<>>
    /\ states = <<>>
    /\ intermediates = <<>>
    /\ steps_counter = 0
    /\ i = 0
    /\ ctx = None
    /\ loc = <<>>
    /\ result = <<>>
    /\ model_calls = 0
    /\ hist = <<>>

\* every way a call can be refused at entry, on one modality
Init ==
    InitFrom([models |-> {Model({1}), BadModel},
              configs |-> {<<Continuous>>, <<Discrete>>},
              sources |-> {None, Some(Uniform)},
              tqdm |-> BOOLEAN,
              n_init |-> {1, 2},
              batches |-> {1},
              x0 |-> {0},
              steps |-> StepSizes(MaxT),
              div_frees |-> DivFrees,
              methods |-> {"euler", "midpoint"},
              grids |-> Grids(2, MaxT),
              return_intermediates |-> BOOLEAN,
              enable_grad |-> {FALSE},
              verbose |-> BOOLEAN])

Spec == Init /\ [][Next]_vars

\* one continuous modality: constant models on every interval and batch
\* size, and a model whose output varies on every grid
InitCont ==
    \/ InitFrom([models |-> {Model({2}), Model({-1})},
                 configs |-> {<<Continuous>>},
                 sources |-> {None},
                 tqdm |-> {TRUE},
                 n_init |-> {1},
                 batches |-> 1 .. MaxBatch,
                 x0 |-> {0, 1},
                 steps |-> StepSizes(MaxT),
                 div_frees |-> {Float(0)},
                 methods |-> {"euler"},
                 grids |-> Grids(2, MaxT),
                 return_intermediates |-> {FALSE},
                 enable_grad |-> BOOLEAN,
                 verbose |-> {FALSE}])
    \/ InitFrom([models |-> {Model({-1, 2})},
                 configs |-> {<<Continuous>>},
                 sources |-> {None},
                 tqdm |-> {TRUE},
                 n_init |-> {1},
                 batches |-> {1},
                 x0 |-> {0},
                 steps |-> StepSizes(MaxT),
                 div_frees |-> {Float(0)},
                 methods |-> {"euler"},
                 grids |-> Grids(MaxLen, MaxT),
                 return_intermediates |-> BOOLEAN,
                 enable_grad |-> BOOLEAN,
                 verbose |-> {FALSE}])

SpecCont == InitCont /\ [][Next]_vars

\* recorded trajectories over long, possibly unsorted, grids
InitGrid ==
    InitFrom([models |-> {Model({1})},
              configs |-> {<<Continuous>>},
              sources |-> {None},
              tqdm |-> {TRUE},
              n_init |-> {1},
              batches |-> {1},
              x0 |-> {0},
              steps |-> StepSizes(GridMaxT),
              div_frees |-> {Float(0)},
              methods |-> {"euler"},
              grids |-> Grids(GridMaxLen, GridMaxT),
              return_intermediates |-> {TRUE},
              enable_grad |-> {FALSE},
              verbose |-> {FALSE}])

SpecGrid == InitGrid /\ [][Next]_vars

\* discrete modalities, alone and beside a continuous one: runs of one
\* or two steps on batches of one or two elements, and runs of up to three
\* steps on a single element
InitDiscrete ==
    \/ InitFrom([models |-> {Model({1})},
                 configs |-> {<<Discrete>>, <<Continuous, Discrete>>},
                 sources |-> {None, Some(Uniform), Some(PointMass)},
                 tqdm |-> {TRUE},
                 n_init |-> {1, 2},
                 batches |-> {1, 2},
                 x0 |-> {0},
                 steps |-> {None, Some(1)},
                 div_frees |-> DivFrees,
                 methods |-> {"euler"},
                 grids |-> {<<0, 2>>, <<1, 3>>, <<0, 1, 2>>},
                 return_intermediates |-> BOOLEAN,
                 enable_grad |-> BOOLEAN,
                 verbose |-> {FALSE}])
    \/ InitFrom([models |-> {Model({1})},
                 configs |-> {<<Discrete>>},
                 sources |-> {None, Some(Uniform)},
                 tqdm |-> {TRUE},
                 n_init |-> {1},
                 batches |-> {1},
                 x0 |-> {0, 1},
                 steps |-> {None, Some(1)},
                 div_frees |-> {Float(0), Callable(-1, 1)},
                 methods |-> {"euler"},
                 grids |-> {<<0, 3>>, <<0, 1, 3>>},
                 return_intermediates |-> BOOLEAN,
                 enable_grad |-> BOOLEAN,
                 verbose |-> {FALSE}])

SpecDiscrete == InitDiscrete /\ [][Next]_vars

(***************************************************************************)
(* Properties.                                                             *)
(***************************************************************************)
Fixed == ~IsNone(call.step_size)
TInit == call.time_grid[1]
TFinal == call.time_grid[Len(call.time_grid)]
\* the loop has run to its end (n_steps is 0 until the entry checks pass)
LoopFinished == n_steps > 0 /\ i = n_steps
DiscreteIdx == {idx \in 1 .. Len(modality_configs) :
                   modality_configs[idx].type = "discrete"}
\* the loop body has run at least once and was not the final one for idx
NonFinal(idx) ==
    /\ Len(loc) >= idx
    /\ loc[idx].type = "discrete"
    /\ ~loc[idx].final

StrictlyIncreasing(tg) == \A j \in 1 .. Len(tg) - 1 : tg[j] < tg[j + 1]

\* C1: with return_intermediates and a fixed step_size, the k-th snapshot
\* returned for a modality is the state at the discretization time nearest
\* to the caller's time_grid[k], whatever the order of the caller's grid.
C1_SnapshotsInCallerOrder ==
    (pc = "done" /\ call.return_intermediates /\ Fixed) =>
        \A idx \in 1 .. Len(result) : \A k \in 1 .. Len(call.time_grid) :
            heap[result[idx][k]]
                = hist[NearestIndex(call.time_grid[k], t_discretization)][idx]

\* C8: with return_intermediates, once the loop has run every modality's
\* trajectory holds exactly len(time_grid) snapshots and the call returns
\* them, for step_size None and for every accepted fixed step_size (stated
\* here for the strictly increasing grids of the data model, where two
\* requested times can still be nearest to one discretization point).
C8_OneSnapshotPerRequestedTime ==
    (LoopFinished /\ call.return_intermediates
        /\ StrictlyIncreasing(call.time_grid)) =>
        /\ pc # "failed"
        /\ \A idx \in 1 .. Len(intermediates) :
               Len(intermediates[idx]) = Len(call.time_grid)

\* C2: a call that is invalid (wrong number of initial states, a method
\* other than "euler", a step_size not smaller than time_grid[-1] -
\* time_grid[0], a nonzero div_free without a source distribution) never
\* enters the loop: whatever step is taken, the call is left failed, the
\* model has not been invoked and the caller's tensors hold what they held.
C2_Invalid ==
    \/ Len(call.x_init) # Len(modality_configs)
    \/ call.method # "euler"
    \/ (Fixed /\ Val(call.step_size) >= TFinal - TInit)
    \/ (IsNone(source_distribution_p)
           /\ (call.div_free.c0 # 0 \/ call.div_free.c1 # 0))
C2_InvalidCallFailsBeforeLoop ==
    [][C2_Invalid =>
          /\ pc' = "failed"
          /\ model_calls' = 0
          /\ steps_counter' = 0
          /\ \A idx \in 1 .. Len(call.x_init) :
                 heap'[call.x_init[idx]] = heap[call.x_init[idx]]]_vars
C2_Witness ==
    /\ pc = "failed"
    /\ err = "AssertionError"
    /\ Len(call.x_init) = Len(modality_configs)
    /\ call.method = "euler"
    /\ DivFreeIsZero(call.div_free)
    /\ Fixed /\ Val(call.step_size) = TFinal - TInit

\* C3: with the display dependency available, a call with verbose=True
\* completes whenever the same call with verbose=False does: it fails
\* before its first step only if the call with verbose=False fails there
\* too (reporting progress does not change the outcome).
C3_VerboseSameOutcome ==
    (pc = "failed" /\ model_calls = 0 /\ call.verbose /\ TQDM_AVAILABLE
        /\ StrictlyIncreasing(call.time_grid)) =>
        EntryError([call EXCEPT !.verbose = FALSE]) # "none"

C5_EulerLinearity ==
    (pc = "done" /\ Fixed /\ Cardinality(model.vel) = 1) =>
        \A v \in model.vel : \A b \in 1 .. BatchSize :
            heap[result[1]][b]
                = heap[call.x_init[1]][b] + (TFinal - TInit) * v
C5_Witness ==
    /\ pc = "done" /\ Fixed
    /\ model.vel = {2}
    /\ steps_counter = 2
    /\ heap[call.x_init[1]][1] = 0
    /\ heap[result[1]][1] = 2 * (TFinal - TInit)
    /\ t_discretization[3] - t_discretization[2] < Val(call.step_size)

\* C6: after the final step the state of a discrete modality is, at every
\* coordinate, the categorical draw x_1 of that step; no rate, mask or
\* jump target was computed in that step.
C6_FinalStepIsTerminalDraw ==
    (LoopFinished /\ pc \in {"stepping", "done"}) =>
        \A idx \in DiscreteIdx :
            /\ DOMAIN loc[idx] = {"type", "final", "x_t", "x_1"}
            /\ heap[states[idx]] = loc[idx].x_1
            /\ (pc = "done" /\ ~call.return_intermediates)
                   => heap[result[idx]] = loc[idx].x_1
C6_Witness ==
    /\ pc = "done" /\ ~call.return_intermediates
    /\ \E idx \in DiscreteIdx : \E b \in 1 .. BatchSize :
          /\ loc[idx].x_1[b] # loc[idx].x_t[b]
          /\ heap[result[idx]][b] = loc[idx].x_1[b]

\* C7: in a non-final step of a discrete modality the rate field u used
\* for the jump mask and the jump target is 0 from every coordinate toward
\* the value the coordinate holds, with and without the divergence-free
\* term; a coordinate that jumps takes another value.
C7_ZeroSelfRate ==
    \A idx \in DiscreteIdx : NonFinal(idx) =>
        \A b \in 1 .. BatchSize :
            /\ loc[idx].u[b][loc[idx].x_t[b]] = 0
            /\ loc[idx].mask_jump[b] => loc[idx].x_new[b] # loc[idx].x_t[b]
C7_Witness ==
    \E idx \in DiscreteIdx :
        /\ NonFinal(idx)
        /\ loc[idx].div_free_t > 0
        /\ \E b \in 1 .. BatchSize :
              /\ loc[idx].u_div[b][loc[idx].x_t[b]] > 0
              /\ loc[idx].x_1[b] = loc[idx].x_t[b]
              /\ loc[idx].mask_jump[b]

\* the two summands of u, written out (scaled as the model's rates are)
C9_Base(l, b, c) ==
    IF l.x_1[b] = c THEN l.d_k_t * l.k_t * KDen * PDen ELSE 0
C9_Term(l, b, c) ==
    l.div_free_t * l.d_k_t * KDen
        * ((KDen - l.k_t) * Val(source_distribution_p)[c + 1]
              + (IF l.x_1[b] = c THEN l.k_t * PDen ELSE 0))

C10_Protected ==
    Range(call.x_init)
        \cup UNION {Range(intermediates[idx]) :
                        idx \in 1 .. Len(intermediates)}
C10_InputsAndSnapshotsUnchanged ==
    [][\A id \in C10_Protected : heap'[id] = heap[id]]_vars

=============================================================================
